---- MODULE Spec2Model ----
(***************************************************************************)
(* A model of LastWinsAndCancelsPrevious: a task queue in which a newer    *)
(* run() cancels the task started by the previous one, optionally behind   *)
(* a debounce or throttle.                                                 *)
(*                                                                         *)
(* A call of run() is identified by its number k (1, 2, ...).  The         *)
(* AbortController created for call k is identified by k as well, and so   *)
(* is its signal.  Promises are records [state, val]; a promise that was   *)
(* settled ignores every later resolve/reject.  The promise reactions      *)
(* (the code behind an await or a then) run from a FIFO microtask queue;   *)
(* a top-level operation may run between two of them, a timer only when    *)
(* the queue is empty.                                                     *)
(***************************************************************************)
EXTENDS Integers, Sequences, FiniteSets, TLC

\* ------------------------------------------------------------------ bounds
MaxCalls == 3   \* run() calls issued in one behaviour
MaxDeferredCalls == 2   \* the same, under debounce/throttle with a leading edge
MaxVal == 1     \* a task resolves with a result drawn from 0..MaxVal (0 is falsy)
Wait == 2       \* debounceMs / throttleMs, in clock ticks
MaxTime == 5    \* the clock stops here
MaxSubs == 2    \* hook subscriptions made in one behaviour
MaxHookCalls == 2   \* run() calls issued in a behaviour with hook subscribers
MaxReads == 1   \* reads of nextSeriesResult in one behaviour
MaxTwoCalls == 1   \* run() calls issued on each of two instances

\* ------------------------------------------------------------------ values
Undefined == [t |-> "undefined", v |-> 0]
Value(v) == [t |-> "value", v |-> v]
TaskError(v) == [t |-> "error", v |-> v]
TaskAbortedError == [t |-> "TaskAbortedError", v |-> 0]
TaskIgnoredError == [t |-> "TaskIgnoredError", v |-> 0]
InternalError == [t |-> "Error", v |-> 0]

Pending == [state |-> "pending", val |-> Undefined]
Resolve(p, x) == IF p.state = "pending" THEN [state |-> "fulfilled", val |-> x] ELSE p
Reject(p, x) == IF p.state = "pending" THEN [state |-> "rejected", val |-> x] ELSE p
\* p.catch(() => {})
Caught(p) == IF p.state = "rejected" THEN Resolve(Pending, Undefined) ELSE p

VARIABLES
  mode,                        \* "none", "debounce" or "throttle" (the options)
  edge,                        \* "leading", "trailing" or "both"
  leadingTaskController,       \* 0 (undefined) or the call whose controller it is
  leadingTaskArgs,             \* 0 (undefined) or the arguments of that call
  currentSeriesPromise,        \* 0 (undefined) or an index into series
  currentSeriesPromiseResolve, \* 0 (undefined) or the series it resolves
  currentSeriesPromiseReject,  \* 0 (undefined) or the series it rejects
  series,                      \* every series promise created so far
  calls,                       \* every run() call so far
  microtasks,                  \* the queued promise reactions
  now,                         \* the clock
  lastArgs,                    \* debounce: 0 (undefined) or the call whose arguments it holds
  lastCallTime,                \* debounce: -1 (undefined) or a time
  lastInvokeTime,              \* debounce: 0 or a time
  timerId,                     \* debounce: -1 (undefined) or the time its timer is due
  lastResult,                  \* debounce: 0 (undefined) or the call whose _run promise it holds
  events,                      \* the hook events fired by the last operation, in order
  hooks,                       \* hooks[kind]: the array on<Kind>Hooks of subscribed callbacks
  handles,                     \* the unsubscribe functions returned so far
  used,                        \* the unsubscribe functions that have been called
  invoked,                     \* the callbacks the last operation invoked, in order
  nextSeries,                  \* the promises returned by the nextSeriesResult getter
  other,                       \* a second instance in the same event loop, as a record
  lastOp                       \* the operation that produced this state, and the
                               \* call it was about (0 if none)

vars == <<mode, edge, leadingTaskController, leadingTaskArgs, currentSeriesPromise,
          currentSeriesPromiseResolve, currentSeriesPromiseReject, series,
          calls, microtasks, now, lastArgs, lastCallTime, lastInvokeTime, timerId,
          lastResult, events, hooks, handles, used, invoked, nextSeries, other, lastOp>>

Op(op, k) == [op |-> op, k |-> k]

\* The instance, its debounced function and the event loop as one record, so
\* that a method is a function from the record before the call to the record
\* after it.
Self ==
  [mode |-> mode,
   edge |-> edge,
   leadingTaskController |-> leadingTaskController,
   leadingTaskArgs |-> leadingTaskArgs,
   currentSeriesPromise |-> currentSeriesPromise,
   currentSeriesPromiseResolve |-> currentSeriesPromiseResolve,
   currentSeriesPromiseReject |-> currentSeriesPromiseReject,
   series |-> series,
   calls |-> calls,
   microtasks |-> microtasks,
   now |-> now,
   lastArgs |-> lastArgs,
   lastCallTime |-> lastCallTime,
   lastInvokeTime |-> lastInvokeTime,
   timerId |-> timerId,
   lastResult |-> lastResult,
   events |-> <<>>,
   hooks |-> hooks,
   handles |-> handles,
   used |-> used,
   invoked |-> <<>>,
   nextSeries |-> nextSeries,
   thrown |-> FALSE]

\* What a step that does not operate on an instance leaves of its record: it
\* fires none of its events and invokes none of its callbacks.
Untouched(q) == [q EXCEPT !.events = <<>>, !.invoked = <<>>]

Install(q) ==
  /\ leadingTaskController' = q.leadingTaskController
  /\ leadingTaskArgs' = q.leadingTaskArgs
  /\ currentSeriesPromise' = q.currentSeriesPromise
  /\ currentSeriesPromiseResolve' = q.currentSeriesPromiseResolve
  /\ currentSeriesPromiseReject' = q.currentSeriesPromiseReject
  /\ series' = q.series
  /\ calls' = q.calls
  /\ microtasks' = q.microtasks
  /\ lastArgs' = q.lastArgs
  /\ lastCallTime' = q.lastCallTime
  /\ lastInvokeTime' = q.lastInvokeTime
  /\ timerId' = q.timerId
  /\ lastResult' = q.lastResult
  /\ events' = q.events
  /\ hooks' = q.hooks
  /\ handles' = q.handles
  /\ used' = q.used
  /\ invoked' = q.invoked
  /\ nextSeries' = q.nextSeries
  /\ other' = Untouched(other)
  /\ UNCHANGED <<mode, edge, now>>

\* this.debouncedOrThrottledRun is defined: _run gets its three callbacks.
HasDeferral(q) == q.mode # "none"

\* The arguments are opaque to the coordinator, which only stores them and
\* passes them on: the k-th call passes k, so that the arguments tell the calls
\* apart.  The error a task throws is an object of its own: TaskError(k).
\* One run() call:
\*   args        its arguments
\*   invoked     _run was entered for it (thisTaskStartedPromise is resolved)
\*   started     its task body was invoked, with the signal of controller k
\*   abortedBy   who aborted that signal ("none" while signal.aborted is false)
\*   task        the promise returned by the task body
\*   p           the promise returned by _run
\*   dres        debouncedOrThrottledRunResult: 0 or the call whose p it wraps
\*   fut         the promise returned by run() (resultPromise under deferral)
\*   follows     0, or the call whose p the resultPromise was resolved with
\*   hooked      its onTaskAbortedInternal subscription is in place
\*   unsub       a setTimeout(() => unsub(), 0) for it is pending
\*   nextStarted its nextTaskStartedPromise is resolved
\*   stage       where run() stands: "calling", "awaitA"/"queuedA" (the first
\*               race), "awaitB"/"queuedB" (the second race), "done"
NewCall(a, deferral) ==
  [args |-> a, invoked |-> FALSE, started |-> FALSE, abortedBy |-> "none",
   task |-> Pending, p |-> Pending, dres |-> 0, fut |-> Pending, follows |-> 0,
   hooked |-> deferral, unsub |-> FALSE, nextStarted |-> FALSE,
   stage |-> IF deferral THEN "calling" ELSE "done"]

SignalAborted(q, k) == q.calls[k].abortedBy # "none"

ControllerAbort(q, k, by) ==
  IF SignalAborted(q, k) THEN q ELSE [q EXCEPT !.calls[k].abortedBy = by]

Job(kind, k, won) == [kind |-> kind, k |-> k, won |-> won]

Enqueue(q, job) == [q EXCEPT !.microtasks = Append(@, job)]

\* ------------------------------------------------------------------ hooks
Event(kind, a, signal, val) == [kind |-> kind, args |-> a, signal |-> signal, val |-> val]

\* The eight hook arrays, by the event they are fired for.
EventKinds ==
  {"taskAborted", "seriesFailed", "seriesSucceeded", "seriesStarted",
   "taskDeferred", "taskIgnored", "abortedTaskFinished", "taskStarted"}

\* The callbacks a client subscribes.  A callback is a function object, told
\* from every other by identity; what it does when invoked: nothing that
\* concerns the queue, throw, call the unsubscribe function it was subscribed
\* with, or subscribe the plain callback to the same event.
Callbacks == {"plain", "throws", "unsubscribes", "subscribes"}

\* The exception a callback throws.
HookError == [t |-> "HookError", v |-> 0]

\* on<Kind>(cb): push cb and return an unsubscribe function, which closes
\* over cb alone.  sub numbers the subscription; the code does not store it.
subscribeImpl(q, kind, cb) ==
  LET h == Len(q.handles) + 1
  IN [q EXCEPT !.handles = Append(@, [kind |-> kind, cb |-> cb]),
               !.hooks[kind] = Append(@, [cb |-> cb, sub |-> h])]

\* array.indexOf(cb), counted from 1; 0 stands for -1.
IndexOf(array, cb) ==
  IF \E i \in 1..Len(array) : array[i].cb = cb
    THEN CHOOSE i \in 1..Len(array) :
           array[i].cb = cb /\ \A j \in 1..(i - 1) : array[j].cb # cb
  ELSE 0

\* The unsubscribe function h:
\* idx = hooks.indexOf(cb); if (idx !== -1) hooks.splice(idx, 1)
unsubscribeImpl(q, h) ==
  LET kind == q.handles[h].kind
      array == q.hooks[kind]
      idx == IndexOf(array, q.handles[h].cb)
      q1 == [q EXCEPT !.used = @ \cup {h}]
  IN IF idx = 0 THEN q1
     ELSE [q1 EXCEPT !.hooks[kind] =
             SubSeq(array, 1, idx - 1) \o SubSeq(array, idx + 1, Len(array))]

\* if (x) ...: undefined and 0 are falsy; an error object, a signal are truthy.
Truthy(x) ==
  CASE x.t = "undefined" -> FALSE
    [] x.t = "value" -> x.v # 0
    [] OTHER -> TRUE

\* The signal of controller k, as a rejection reason.
Signal(k) == [t |-> "signal", v |-> k]

\* The function the n-th read of nextSeriesResult passes to onSeriesEnded.
\* onSeriesEnded wraps it in three functions, one per array, which go by its
\* name here.
NextSeriesCallback(n) ==
  CASE n = 1 -> "nextSeriesResult1"
    [] n = 2 -> "nextSeriesResult2"
    [] OTHER -> "nextSeriesResult3"

NextSeriesCallbacks == {NextSeriesCallback(n) : n \in 1..3}

\* The subscriber of the n-th nextSeriesResult promise, called with result.
nextSeriesResultCallback(q, n, result) ==
  LET q1 == [q EXCEPT !.nextSeries[n].unsub = TRUE]
  IN IF result.aborted
       THEN [q1 EXCEPT !.nextSeries[n].p = Reject(@, Signal(result.signal))]
     ELSE IF Truthy(result.error)
       THEN [q1 EXCEPT !.nextSeries[n].p = Reject(@, result.error)]
     ELSE IF Truthy(result.result)
       THEN [q1 EXCEPT !.nextSeries[n].p = Resolve(@, result.result)]
     ELSE [q1 EXCEPT !.thrown = TRUE]

\* The three functions onSeriesEnded subscribes for cb, invoked for the
\* event params of kind.
SeriesEndedCallback(q, n, kind, params) ==
  CASE kind = "seriesSucceeded" ->
         nextSeriesResultCallback(q, n, [result |-> params.val, error |-> Undefined,
                                         signal |-> params.signal, aborted |-> FALSE])
    [] kind = "seriesFailed" ->
         nextSeriesResultCallback(q, n, [result |-> Undefined, error |-> params.val,
                                         signal |-> params.signal, aborted |-> FALSE])
    [] kind = "taskAborted" ->
         IF params.signal = 0 \/ params.args = 0 THEN q
         ELSE nextSeriesResultCallback(q, n, [result |-> Undefined, error |-> Undefined,
                                              signal |-> params.signal, aborted |-> TRUE])

\* The body of a callback, invoked as entry e of the array of kind.
Call(q, kind, e) ==
  CASE e.cb = "plain" -> q
    [] e.cb \in NextSeriesCallbacks ->
         SeriesEndedCallback(q, CHOOSE n \in 1..3 : NextSeriesCallback(n) = e.cb,
                             kind, q.events[Len(q.events)])
    [] e.cb = "throws" -> [q EXCEPT !.thrown = TRUE]
    [] e.cb = "unsubscribes" -> unsubscribeImpl(q, e.sub)
    [] e.cb = "subscribes" ->
         IF Len(q.handles) < MaxSubs THEN subscribeImpl(q, kind, "plain") ELSE q

\* for (const cb of this.on<Kind>Hooks) cb(...), from position i on: the
\* iterator reads the array as it is at each step, and an exception thrown by
\* a callback leaves the loop.
RECURSIVE Dispatch(_, _, _)
Dispatch(q, kind, i) ==
  IF q.thrown \/ i > Len(q.hooks[kind]) THEN q
  ELSE LET e == q.hooks[kind][i]
           q1 == [q EXCEPT !.invoked = Append(@, [kind |-> kind, cb |-> e.cb, sub |-> e.sub])]
       IN Dispatch(Call(q1, kind, e), kind, i + 1)

Fire(q, e) == Dispatch([q EXCEPT !.events = Append(@, e)], e.kind, 1)

fireTaskAborted(q, a, signal) == Fire(q, Event("taskAborted", a, signal, Undefined))

fireSeriesFailed(q, error, signal, a) == Fire(q, Event("seriesFailed", a, signal, error))

fireSeriesSucceeded(q, result, signal, a) == Fire(q, Event("seriesSucceeded", a, signal, result))

fireTaskDeferred(q, a) == Fire(q, Event("taskDeferred", a, 0, Undefined))

fireTaskIgnored(q, a) == Fire(q, Event("taskIgnored", a, 0, Undefined))

fireAbortedTaskFinished(q, signal, a, result) ==
  Fire(q, Event("abortedTaskFinished", a, signal, result))

fireSeriesStarted(q, a, signal) == Fire(q, Event("seriesStarted", a, signal, Undefined))

\* The subscriber of call m's nextTaskStartedPromise: resolve(), which queues
\* the reaction of the second race if run() of call m is waiting in it.
RECURSIVE ResolveNextStarted(_, _)
ResolveNextStarted(q, m) ==
  IF m > Len(q.calls) THEN q
  ELSE LET c == q.calls[m]
           q1 == IF c.nextStarted THEN q
                 ELSE IF c.stage = "awaitB"
                   THEN Enqueue([q EXCEPT !.calls[m].nextStarted = TRUE,
                                          !.calls[m].stage = "queuedB"],
                                Job("raceB", m, FALSE))
                 ELSE [q EXCEPT !.calls[m].nextStarted = TRUE]
       IN ResolveNextStarted(q1, m + 1)

fireTaskStarted(q, a, signal) ==
  LET q1 == Fire(q, Event("taskStarted", a, signal, Undefined))
  IN IF HasDeferral(q) THEN ResolveNextStarted(q1, 1) ELSE q1

\* ------------------------------------------------------------------ series
\* this.currentSeriesPromiseResolve?.(x) and this.currentSeriesPromiseReject?.(x)
SeriesResolve(q, x) ==
  IF q.currentSeriesPromiseResolve = 0 THEN q
  ELSE [q EXCEPT !.series[q.currentSeriesPromiseResolve] = Resolve(@, x)]

SeriesReject(q, x) ==
  IF q.currentSeriesPromiseReject = 0 THEN q
  ELSE [q EXCEPT !.series[q.currentSeriesPromiseReject] = Reject(@, x)]

startSeries(q, a, signal) ==
  LET id == Len(q.series) + 1
      q1 == [q EXCEPT !.series = Append(@, Pending),
                      !.currentSeriesPromise = id,
                      !.currentSeriesPromiseResolve = id,
                      !.currentSeriesPromiseReject = id]
  IN fireSeriesStarted(q1, a, signal)

\* clearSeries that forgets the series promise but keeps the controller.
clearSeriesKeepsController(q, fallbackResolve, fallbackResult) ==
  LET q2 == IF fallbackResolve THEN SeriesResolve(q, fallbackResult)
            ELSE SeriesReject(q, fallbackResult)
  IN [q2 EXCEPT !.currentSeriesPromiseResolve = 0,
                !.currentSeriesPromiseReject = 0,
                !.currentSeriesPromise = 0]

\* clearSeries that forgets the controller but keeps the series promise.
clearSeriesKeepsSeries(q, fallbackResolve, fallbackResult) ==
  LET q1 == [q EXCEPT !.leadingTaskController = 0, !.leadingTaskArgs = 0]
  IN IF fallbackResolve THEN SeriesResolve(q1, fallbackResult)
     ELSE SeriesReject(q1, fallbackResult)

clearSeries(q, fallbackResolve, fallbackResult) ==
  LET q1 == [q EXCEPT !.leadingTaskController = 0, !.leadingTaskArgs = 0]
      q2 == IF fallbackResolve THEN SeriesResolve(q1, fallbackResult)
            ELSE SeriesReject(q1, fallbackResult)
  IN [q2 EXCEPT !.currentSeriesPromiseResolve = 0,
                !.currentSeriesPromiseReject = 0,
                !.currentSeriesPromise = 0]

\* ------------------------------------------------------------------ run()'s promise
\* A promise resolved with another promise is locked to it: it ignores every
\* later resolve and reject, and settles as the other one does.
Open(q, k) == q.calls[k].fut.state = "pending" /\ q.calls[k].follows = 0

\* _resolveResultPromise(x) and _rejectResultPromise(x), x not a promise
ResultResolve(q, k, x) ==
  IF Open(q, k) THEN [q EXCEPT !.calls[k].fut = Resolve(@, x)] ELSE q

ResultReject(q, k, x) ==
  IF Open(q, k) THEN [q EXCEPT !.calls[k].fut = Reject(@, x)] ELSE q

\* _resolveResultPromise(debouncedOrThrottledRunResult), the wrapped p of call j
ResultFollow(q, k, j) ==
  IF ~Open(q, k) THEN q
  ELSE IF q.calls[j].p.state # "pending"
    THEN [q EXCEPT !.calls[k].fut = Caught(q.calls[j].p), !.calls[k].follows = j]
  ELSE [q EXCEPT !.calls[k].follows = j]

\* setTimeout(() => unsub(), 0)
ScheduleUnsub(q, k) == [q EXCEPT !.calls[k].unsub = TRUE]

resolveResultPromise(q, k, x) == ScheduleUnsub(ResultResolve(q, k, x), k)

rejectResultPromise(q, k, x) == ScheduleUnsub(ResultReject(q, k, x), k)

\* The promise returned by _run for call k settles as np.  With no deferral
\* it is the promise run() returns.  Under deferral the result promises that
\* were resolved with it settle, and the first race of every run() that is
\* waiting for it is decided against thisTaskStartedPromise.
RECURSIVE Propagate(_, _, _)
Propagate(q, k, m) ==
  IF m > Len(q.calls) THEN q
  ELSE LET c == q.calls[m]
           q1 == IF c.follows = k /\ c.fut.state = "pending"
                 THEN [q EXCEPT !.calls[m].fut = Caught(q.calls[k].p)] ELSE q
           q2 == IF c.stage = "awaitA" /\ c.dres = k
                 THEN Enqueue([q1 EXCEPT !.calls[m].stage = "queuedA"],
                              Job("raceA", m, FALSE))
                 ELSE q1
       IN Propagate(q2, k, m + 1)

SettleRun(q, k, np) ==
  IF q.calls[k].p.state # "pending" THEN q
  ELSE IF HasDeferral(q)
    THEN Propagate([q EXCEPT !.calls[k].p = np], k, 1)
  ELSE [q EXCEPT !.calls[k].p = np, !.calls[k].fut = np]

\* ------------------------------------------------------------------ _run
\* The onTaskStarted callback of call k: resolveThisTaskStarted(startedTaskSymbol),
\* which queues the reaction of the race run() of call k is waiting in.
onTaskStarted(q, k) ==
  IF ~HasDeferral(q) THEN q
  ELSE LET q1 == [q EXCEPT !.calls[k].invoked = TRUE]
           st == q.calls[k].stage
       IN IF st = "awaitA"
            THEN Enqueue([q1 EXCEPT !.calls[k].stage = "queuedA"], Job("raceA", k, TRUE))
          ELSE IF st = "awaitB"
            THEN Enqueue([q1 EXCEPT !.calls[k].stage = "queuedB"], Job("raceB", k, TRUE))
          ELSE q1

\* The onTaskCompleted and onTaskFailed callbacks of call k.
onTaskCompleted(q, k, result) ==
  IF HasDeferral(q) THEN resolveResultPromise(q, k, result) ELSE q

onTaskFailed(q, k, err) ==
  IF HasDeferral(q) THEN rejectResultPromise(q, k, err) ELSE q

\* Sequencing: the statements after one that threw are skipped, up to the
\* catch block that takes the exception.
Then(q, Statement(_)) == IF q.thrown THEN q ELSE Statement(q)

Catch(q) == [q EXCEPT !.thrown = FALSE]

\* `throw err` reaching the outer catch of _run: with an onTaskFailed callback
\* it is called and _run returns undefined, with none the promise returned by
\* _run is rejected with err.
RunThrows(q, k, err) ==
  IF HasDeferral(q)
    THEN SettleRun(onTaskFailed(q, k, err), k, Resolve(Pending, Undefined))
  ELSE SettleRun(q, k, Reject(Pending, err))

\* A new task that starts without aborting the previous controller.
KeepPrevious(q, a) ==
  LET c == q.leadingTaskController
  IN IF c # 0 THEN fireTaskAborted(q, a, c) ELSE q

\* The previous task, if any, is aborted: a is the arguments of the new call.
AbortPrevious(q, a) ==
  LET c == q.leadingTaskController
  IN IF c # 0 THEN fireTaskAborted(ControllerAbort(q, c, "run"), a, c) ELSE q

\* A new series is opened for every task that starts.
OpenSeriesAlways(q, a, k) == startSeries(q, a, k)

OpenSeries(q, a, k) ==
  IF q.currentSeriesPromise = 0 THEN startSeries(q, a, k) ELSE q

\* _run that announces the new task before it aborts the previous one.
StartsBeforeAborting(q, k) ==
  LET a == q.calls[k].args
      q0 == onTaskStarted(q, k)
      c == q0.leadingTaskController
  IN IF c # 0 /\ q0.currentSeriesPromise = 0
       THEN RunThrows(q0, k, InternalError)
     ELSE IF c # 0 /\ SignalAborted(q0, c)
       THEN RunThrows(fireTaskAborted(q0, a, c), k, TaskAbortedError)
     ELSE
       LET q1 == fireTaskStarted(q0, a, k)
           q2 == AbortPrevious(q1, a)
           q3 == [q2 EXCEPT !.leadingTaskArgs = a, !.leadingTaskController = k]
           q4 == OpenSeries(q3, a, k)
       IN [q4 EXCEPT !.calls[k].started = TRUE]

\* _run up to `await this.task(signal, ...args)`, for call k.
_run(q, k) ==
  LET a == q.calls[k].args
      q0 == onTaskStarted(q, k)
      c == q0.leadingTaskController
  IN IF c # 0 /\ q0.currentSeriesPromise = 0
       THEN RunThrows(q0, k, InternalError)
     ELSE IF c # 0 /\ SignalAborted(q0, c)
       THEN LET q1 == fireTaskAborted(q0, a, c)
            IN IF q1.thrown THEN RunThrows(Catch(q1), k, HookError)
               ELSE RunThrows(q1, k, TaskAbortedError)
     ELSE
       LET q1 == AbortPrevious(q0, a)
           q2 == Then(q1, LAMBDA x : [x EXCEPT !.leadingTaskArgs = a,
                                               !.leadingTaskController = k])
           q3 == Then(q2, LAMBDA x : fireTaskStarted(x, a, k))
           q4 == Then(q3, LAMBDA x : OpenSeries(x, a, k))
       IN IF q4.thrown THEN RunThrows(Catch(q4), k, HookError)
          ELSE [q4 EXCEPT !.calls[k].started = TRUE]

\* `if (!signal.aborted)` after the await, and a check that always passes.
AlwaysAccepted(q, k) == TRUE

ResultAccepted(q, k) == ~SignalAborted(q, k)

\* `if (!signal.aborted)` in the catch, and a check that always passes.
AlwaysHandled(q, k) == TRUE

FailureHandled(q, k) == ~SignalAborted(q, k)

\* An aborted task that resolves hands its result to the caller of run().
AbortedTaskReturns(q, k, result) ==
  SettleRun(onTaskCompleted(q, k, result), k, Resolve(Pending, result))

\* The task of an aborted signal has resolved with result.
AbortedTaskFinished(q, k, result) ==
  LET q1 == fireAbortedTaskFinished(q, k, q.calls[k].args, result)
      q2 == onTaskFailed(q1, k, TaskAbortedError)
  IN IF q1.thrown THEN RunThrows(Catch(q1), k, HookError)
     ELSE RunThrows(q2, k, TaskAbortedError)

\* The catch block of _run around the await, entered with err: the task of
\* call k has rejected with it, or a callback fired after the await threw it.
RunRejected(q, k, err) ==
  IF FailureHandled(q, k)
    THEN LET q1 == SeriesReject(q, err)
             q2 == fireSeriesFailed(q1, err, k, q.calls[k].args)
             q3 == clearSeries(q2, FALSE, err)
             q4 == onTaskFailed(q3, k, err)
         IN IF q2.thrown THEN RunThrows(Catch(q2), k, HookError)
            ELSE RunThrows(q4, k, err)
  ELSE RunThrows(q, k, err)

\* _run after the await, the task of call k having resolved with result.
RunFulfilled(q, k, result) ==
  IF ResultAccepted(q, k)
    THEN LET q1 == SeriesResolve(q, result)
             q2 == fireSeriesSucceeded(q1, result, k, q.calls[k].args)
             q3 == onTaskCompleted(q2, k, result)
             q4 == clearSeries(q3, TRUE, result)
         IN IF q2.thrown THEN RunRejected(Catch(q2), k, HookError)
            ELSE SettleRun(q4, k, Resolve(Pending, result))
  ELSE AbortedTaskFinished(q, k, result)

\* ------------------------------------------------------------------ debounce, throttle
\* lodash.debounce(func, wait, {leading, trailing}); lodash.throttle is the
\* same function with maxWait = wait.  wait is Wait ticks of the clock.
\* The leading edge is enabled only by edge 'leading'.
LeadingOnly(q) == q.edge = "leading"

leading(q) == q.edge \in {"leading", "both"}

trailing(q) == q.edge \in {"trailing", "both"}

maxing(q) == q.mode = "throttle"

\* time - lastInvokeTime.  lastInvokeTime is 0 until the first leading edge
\* and after cancel(), and the real clock is far beyond any wait: the
\* difference is then greater than every wait.
TimeSinceLastInvoke(q, time) ==
  IF q.lastInvokeTime = 0 THEN Wait + MaxTime + 1 ELSE time - q.lastInvokeTime

Min(a, b) == IF a < b THEN a ELSE b

invokeFunc(q, time) ==
  LET k == q.lastArgs
      q1 == [q EXCEPT !.lastArgs = 0, !.lastInvokeTime = time]
  IN [_run(q1, k) EXCEPT !.lastResult = k]

leadingEdge(q, time) ==
  LET q1 == [q EXCEPT !.lastInvokeTime = time, !.timerId = q.now + Wait]
  IN IF leading(q) THEN invokeFunc(q1, time) ELSE q1

remainingWait(q, time) ==
  LET timeWaiting == Wait - (time - q.lastCallTime)
  IN IF maxing(q) THEN Min(timeWaiting, Wait - TimeSinceLastInvoke(q, time))
     ELSE timeWaiting

shouldInvoke(q, time) ==
  \/ q.lastCallTime = -1
  \/ time - q.lastCallTime >= Wait
  \/ time - q.lastCallTime < 0
  \/ maxing(q) /\ TimeSinceLastInvoke(q, time) >= Wait

trailingEdge(q, time) ==
  LET q1 == [q EXCEPT !.timerId = -1]
  IN IF trailing(q) /\ q.lastArgs # 0 THEN invokeFunc(q1, time)
     ELSE [q1 EXCEPT !.lastArgs = 0]

\* A timer is never early; a timer set for a time that has passed is due now.
timerExpired(q) ==
  IF shouldInvoke(q, q.now) THEN trailingEdge(q, q.now)
  ELSE LET r == remainingWait(q, q.now)
       IN [q EXCEPT !.timerId = q.now + (IF r > 0 THEN r ELSE 0)]

cancel(q) ==
  [q EXCEPT !.timerId = -1, !.lastInvokeTime = 0, !.lastArgs = 0, !.lastCallTime = -1]

\* debounced(args, onTaskStarted, onTaskCompleted, onTaskFailed) of call k;
\* what it returns is lastResult of the record it yields.
debounced(q, k) ==
  LET time == q.now
      isInvoking == shouldInvoke(q, time)
      q1 == [q EXCEPT !.lastArgs = k, !.lastCallTime = time]
  IN IF isInvoking /\ q.timerId = -1 THEN leadingEdge(q1, time)
     ELSE IF isInvoking /\ maxing(q)
       THEN invokeFunc([q1 EXCEPT !.timerId = q.now + Wait], time)
     ELSE IF q.timerId = -1 THEN [q1 EXCEPT !.timerId = q.now + Wait]
     ELSE q1

\* ------------------------------------------------------------------ run
\* run(...args) with debounce/throttle options, up to its first await.
runDeferrable(q, k) ==
  LET q1 == debounced(q, k)
      d == q1.lastResult
      q2 == [q1 EXCEPT !.calls[k].dres = d]
  IN IF q2.calls[k].invoked
       THEN Enqueue([q2 EXCEPT !.calls[k].stage = "queuedA"], Job("raceA", k, TRUE))
     ELSE IF d = 0 \/ q2.calls[d].p.state # "pending"
       THEN Enqueue([q2 EXCEPT !.calls[k].stage = "queuedA"], Job("raceA", k, FALSE))
     ELSE [q2 EXCEPT !.calls[k].stage = "awaitA"]

\* run() after `await Promise.race([debouncedOrThrottledRunResult,
\* thisTaskStartedPromise])`; won says that thisTaskStartedPromise won.
runAfterRace(q, k, won) ==
  LET a == q.calls[k].args
      c == q.calls[k]
  IN IF won
       THEN ScheduleUnsub([ResultFollow(q, k, c.dres) EXCEPT !.calls[k].stage = "done"], k)
     ELSE LET q1 == fireTaskDeferred(q, a)
          IN IF q.edge = "leading"
               THEN [rejectResultPromise(fireTaskIgnored(q1, a), k, TaskIgnoredError)
                       EXCEPT !.calls[k].stage = "done"]
             ELSE IF c.nextStarted
               THEN Enqueue([q1 EXCEPT !.calls[k].stage = "queuedB"], Job("raceB", k, FALSE))
             ELSE IF c.invoked
               THEN Enqueue([q1 EXCEPT !.calls[k].stage = "queuedB"], Job("raceB", k, TRUE))
             ELSE [q1 EXCEPT !.calls[k].stage = "awaitB"]

\* The reaction of Promise.race([nextTaskStartedPromise, thisTaskStartedPromise]).
runAfterSecondRace(q, k, won) ==
  LET a == q.calls[k].args
      q1 == [q EXCEPT !.calls[k].stage = "done"]
  IN IF won THEN q1
     ELSE rejectResultPromise(fireTaskIgnored(q1, a), k, TaskIgnoredError)

\* ------------------------------------------------------------------ abort
\* The onTaskAbortedInternal subscribers, in the order they subscribed.
RECURSIVE fireTaskAbortedInternal(_, _)
fireTaskAbortedInternal(q, m) ==
  IF m > Len(q.calls) THEN q
  ELSE IF ~q.calls[m].hooked THEN fireTaskAbortedInternal(q, m + 1)
  ELSE LET q1 == fireTaskAborted(q, q.calls[m].args, 0)
           q2 == ScheduleUnsub(ResultReject(q1, m, TaskAbortedError), m)
       IN fireTaskAbortedInternal(q2, m + 1)

\* abort() that leaves the deferred invocation with the debounced function.
KeepDeferred(q) == q

\* if (this.debouncedOrThrottledRun) this.debouncedOrThrottledRun.cancel()
CancelDeferred(q) == IF HasDeferral(q) THEN cancel(q) ELSE q

abortImpl(q) ==
  LET c == q.leadingTaskController
      q1 == IF c # 0 /\ ~SignalAborted(q, c) THEN ControllerAbort(q, c, "abort") ELSE q
      q2 == fireTaskAbortedInternal(q1, 1)
      q3 == clearSeries(q2, FALSE, Undefined)
      q4 == CancelDeferred(q3)
  IN SeriesReject(q4, TaskAbortedError)

\* ------------------------------------------------------------------ actions
\* The record of a new instance constructed with the options m, e.
NewInstance(m, e) ==
  [mode |-> m, edge |-> e,
   leadingTaskController |-> 0, leadingTaskArgs |-> 0,
   currentSeriesPromise |-> 0, currentSeriesPromiseResolve |-> 0,
   currentSeriesPromiseReject |-> 0,
   series |-> <<>>, calls |-> <<>>, microtasks |-> <<>>, now |-> 1,
   lastArgs |-> 0, lastCallTime |-> -1, lastInvokeTime |-> 0, timerId |-> -1,
   lastResult |-> 0, events |-> <<>>,
   hooks |-> [kind \in EventKinds |-> <<>>], handles |-> <<>>, used |-> {},
   invoked |-> <<>>, nextSeries |-> <<>>, thrown |-> FALSE]

InitCommon ==
  /\ leadingTaskController = 0
  /\ leadingTaskArgs = 0
  /\ currentSeriesPromise = 0
  /\ currentSeriesPromiseResolve = 0
  /\ currentSeriesPromiseReject = 0
  /\ series = <<>>
  /\ calls = <<>>
  /\ microtasks = <<>>
  /\ now = 1
  /\ lastArgs = 0
  /\ lastCallTime = -1
  /\ lastInvokeTime = 0
  /\ timerId = -1
  /\ lastResult = 0
  /\ events = <<>>
  /\ hooks = [kind \in EventKinds |-> <<>>]
  /\ handles = <<>>
  /\ used = {}
  /\ invoked = <<>>
  /\ nextSeries = <<>>
  /\ lastOp = Op("init", 0)

\* new LastWinsAndCancelsPrevious(task)
Init ==
  /\ mode = "none"
  /\ edge = "trailing"
  /\ InitCommon
  /\ other = NewInstance("none", "trailing")

\* new LastWinsAndCancelsPrevious(task, {debounceMs | throttleMs, edge})
InitDeferral ==
  /\ mode \in {"debounce", "throttle"}
  /\ edge \in {"leading", "trailing", "both"}
  /\ InitCommon
  /\ other = NewInstance("none", "trailing")

\* What the promise returned by the task body of call k can settle to.
Outcomes(k) ==
  {Resolve(Pending, Value(v)) : v \in 0..MaxVal} \cup {Reject(Pending, TaskError(k))}

\* How many run() calls a behaviour issues: fewer in the configurations that
\* start tasks on the leading edge, whose state spaces are the largest.
CallLimit == IF mode = "none" \/ edge = "trailing" THEN MaxCalls ELSE MaxDeferredCalls

\* run(...args), as far as it goes without waiting.
runCall ==
  LET k == Len(calls) + 1
      q == [Self EXCEPT !.calls = Append(@, NewCall(k, HasDeferral(Self)))]
  IN /\ Install(IF HasDeferral(q) THEN runDeferrable(q, k) ELSE _run(q, k))
     /\ lastOp' = Op("run", k)

run ==
  /\ Len(calls) < CallLimit
  /\ runCall

\* run(...args) in a behaviour in which abort() is not called.
runInWindow ==
  /\ Len(calls) < MaxCalls
  /\ runCall

abort ==
  /\ Install(abortImpl(Self))
  /\ lastOp' = Op("abort", leadingTaskController)

\* The promise returned by the task body of call k settles; the code of _run
\* that awaits it is queued as a microtask.
TaskSettles ==
  \E k \in 1..Len(calls) : \E out \in Outcomes(k) :
    /\ calls[k].started
    /\ calls[k].task.state = "pending"
    /\ Install(Enqueue([Self EXCEPT !.calls[k].task = out], Job("resume", k, FALSE)))
    /\ lastOp' = Op("settle", k)

\* The first queued microtask runs.
Microtask ==
  /\ microtasks # <<>>
  /\ LET job == Head(microtasks)
         k == job.k
         t == calls[k].task
         q == [Self EXCEPT !.microtasks = Tail(@)]
     IN \/ /\ job.kind = "resume"
           /\ Install(IF t.state = "fulfilled" THEN RunFulfilled(q, k, t.val)
                      ELSE RunRejected(q, k, t.val))
           /\ lastOp' = Op("microtask", k)
        \/ /\ job.kind = "raceA"
           /\ Install(runAfterRace(q, k, job.won))
           /\ lastOp' = Op("raceA", k)
        \/ /\ job.kind = "raceB"
           /\ Install(runAfterSecondRace(q, k, job.won))
           /\ lastOp' = Op("raceB", k)

\* The timer of the debounced function fires.
Timer ==
  /\ microtasks = <<>>
  /\ timerId # -1
  /\ timerId <= now
  /\ Install(timerExpired(Self))
  /\ lastOp' = Op("timer", 0)

\* A setTimeout(() => unsub(), 0) fires: the onTaskAbortedInternal
\* subscription of call k is removed.
Unsubscribe ==
  \E k \in 1..Len(calls) :
    /\ microtasks = <<>>
    /\ calls[k].unsub
    /\ Install([Self EXCEPT !.calls[k].unsub = FALSE, !.calls[k].hooked = FALSE])
    /\ lastOp' = Op("unsub", k)

\* Time passes, while no timer is due.
Tick ==
  /\ microtasks = <<>>
  /\ now < MaxTime
  /\ timerId = -1 \/ timerId > now
  /\ \A k \in 1..Len(calls) : ~calls[k].unsub
  /\ now' = now + 1
  /\ events' = <<>>
  /\ invoked' = <<>>
  /\ other' = [Untouched(other) EXCEPT !.now = now + 1]
  /\ lastOp' = Op("tick", 0)
  /\ UNCHANGED <<mode, edge, leadingTaskController, leadingTaskArgs, currentSeriesPromise,
                 currentSeriesPromiseResolve, currentSeriesPromiseReject, series,
                 calls, microtasks, lastArgs, lastCallTime, lastInvokeTime, timerId,
                 lastResult, hooks, handles, used, nextSeries>>

\* The events the clients of a behaviour subscribe to.
HookKinds == {"taskStarted", "seriesSucceeded"}

\* on<Kind>(cb), called by a client.
subscribe ==
  \E kind \in HookKinds : \E cb \in Callbacks :
    /\ Len(handles) < MaxSubs
    /\ Install(subscribeImpl(Self, kind, cb))
    /\ lastOp' = Op("subscribe", Len(handles) + 1)

\* An unsubscribe function, called by a client (for the first time or again).
unsubscribe ==
  \E h \in 1..Len(handles) :
    /\ Install(unsubscribeImpl(Self, h))
    /\ lastOp' = Op("unsubscribe", h)

\* get nextSeriesResult(): a new promise, and onSeriesEnded(cb) for it.
nextSeriesResultImpl(q) ==
  LET n == Len(q.nextSeries) + 1
      cb == NextSeriesCallback(n)
      h == Len(q.handles)
      q1 == subscribeImpl(q, "seriesSucceeded", cb)
      q2 == subscribeImpl(q1, "seriesFailed", cb)
      q3 == subscribeImpl(q2, "taskAborted", cb)
  IN [q3 EXCEPT !.nextSeries =
        Append(@, [p |-> Pending, subs |-> <<h + 1, h + 2, h + 3>>, unsub |-> FALSE])]

\* A client reads nextSeriesResult.
nextSeriesResult ==
  /\ Len(nextSeries) < MaxReads
  /\ Install(nextSeriesResultImpl(Self))
  /\ lastOp' = Op("nextSeriesResult", Len(nextSeries) + 1)

\* A setTimeout(() => unsub(), 0) of the n-th nextSeriesResult fires: the
\* unsubscribe function of onSeriesEnded calls its three unsubscribe functions.
UnsubscribeNextSeries ==
  \E n \in 1..Len(nextSeries) :
    /\ microtasks = <<>>
    /\ nextSeries[n].unsub
    /\ LET subs == nextSeries[n].subs
           q == [Self EXCEPT !.nextSeries[n].unsub = FALSE]
       IN Install(unsubscribeImpl(unsubscribeImpl(unsubscribeImpl(q, subs[1]), subs[2]), subs[3]))
    /\ lastOp' = Op("unsubNext", n)

\* run(...args) in a behaviour with hook subscribers.
runWithHooks ==
  /\ Len(calls) < MaxHookCalls
  /\ runCall

\* ------------------------------------------------------------------ src/index.ts
\* The coordinator of src/index.ts, whose run() takes the task itself and
\* whose events carry isSeriesEnd.  It is modelled without options, on the same
\* state: controller is leadingTaskController, resultPromise is
\* currentSeriesPromise, and a run(task) call is a record of calls.
HookArgs(kind, result, error, aborted, signal, isSeriesEnd) ==
  [kind |-> kind, result |-> result, error |-> error, aborted |-> aborted,
   signal |-> signal, isSeriesEnd |-> isSeriesEnd]

fireAborted(q, result, signal, isSeriesEnd) ==
  [q EXCEPT !.events = Append(@, HookArgs("aborted", result, Undefined, TRUE, signal, isSeriesEnd))]

fireError(q, error, signal, isSeriesEnd) ==
  [q EXCEPT !.events = Append(@, HookArgs("error", Undefined, error, FALSE, signal, isSeriesEnd))]

fireComplete(q, result, signal, isSeriesEnd) ==
  [q EXCEPT !.events = Append(@, HookArgs("complete", result, Undefined, FALSE, signal, isSeriesEnd))]

fireSeriesStartedIndex(q) ==
  [q EXCEPT !.events = Append(@, HookArgs("seriesStarted", Undefined, Undefined, FALSE, 0, FALSE))]

resetResultPromise(q) ==
  LET id == Len(q.series) + 1
  IN [q EXCEPT !.series = Append(@, Pending),
               !.currentSeriesPromise = id,
               !.currentSeriesPromiseResolve = id,
               !.currentSeriesPromiseReject = id]

clearResultPromise(q) ==
  [q EXCEPT !.currentSeriesPromiseResolve = 0,
            !.currentSeriesPromiseReject = 0,
            !.currentSeriesPromise = 0]

\* abort() of src/index.ts.
abortIndexImpl(q) ==
  LET c == q.leadingTaskController
  IN IF ~(c # 0 /\ ~SignalAborted(q, c)) THEN q
     ELSE clearResultPromise(fireAborted(ControllerAbort(q, c, "abort"), Undefined, c, TRUE))

\* _run(task) of src/index.ts up to the call of the task: the controller of
\* the previous task is never forgotten, so every start but the first aborts
\* one and fires for it.
_runIndex(q, k) ==
  LET c == q.leadingTaskController
      q1 == IF q.currentSeriesPromise = 0 THEN resetResultPromise(q) ELSE q
      q2 == fireSeriesStartedIndex(q1)
      q3 == IF c # 0 THEN fireAborted(ControllerAbort(q2, c, "run"), Undefined, c, FALSE)
            ELSE q2
  IN [q3 EXCEPT !.leadingTaskController = k,
                !.calls[k].invoked = TRUE,
                !.calls[k].started = TRUE]

\* The .then callback of _run.
thenIndex(q, k, result) ==
  LET q1 == IF ~SignalAborted(q, k)
            THEN clearResultPromise(fireComplete(SeriesResolve(q, result), result, k, TRUE))
            ELSE q
  IN [q1 EXCEPT !.calls[k].p = Resolve(@, result), !.calls[k].fut = Resolve(@, result)]

\* The .catch callback of _run.
catchIndex(q, k, err) ==
  LET q1 == IF ~SignalAborted(q, k)
            THEN clearResultPromise(fireError(SeriesReject(q, err), err, k, TRUE))
            ELSE fireError(q, err, k, FALSE)
  IN [q1 EXCEPT !.calls[k].p = Reject(@, err), !.calls[k].fut = Reject(@, err)]

\* run(task) without options.
runIndex ==
  LET k == Len(calls) + 1
      q == [Self EXCEPT !.calls = Append(@, NewCall(k, FALSE))]
  IN /\ Len(calls) < MaxCalls
     /\ Install(_runIndex(q, k))
     /\ lastOp' = Op("run", k)

abortIndex ==
  /\ Install(abortIndexImpl(Self))
  /\ lastOp' = Op("abort", leadingTaskController)

\* The first queued microtask runs: the callbacks chained on the task's promise.
MicrotaskIndex ==
  /\ microtasks # <<>>
  /\ LET job == Head(microtasks)
         k == job.k
         t == calls[k].task
         q == [Self EXCEPT !.microtasks = Tail(@)]
     IN /\ Install(IF t.state = "fulfilled" THEN thenIndex(q, k, t.val)
                   ELSE catchIndex(q, k, t.val))
        /\ lastOp' = Op("microtask", k)

Next == run \/ abort \/ TaskSettles \/ Microtask

Spec == Init /\ [][Next]_vars

NextDeferral == run \/ abort \/ TaskSettles \/ Microtask \/ Timer \/ Unsubscribe \/ Tick

SpecDeferral == InitDeferral /\ [][NextDeferral]_vars

\* The coordinator under debounce/throttle while abort() is not called.
NextHooks == subscribe \/ unsubscribe \/ runWithHooks \/ abort \/ TaskSettles \/ Microtask

\* No options, and clients that subscribe callbacks to the hooks.
SpecHooks == Init /\ [][NextHooks]_vars

\* ------------------------------------------------------------------ two instances
\* A second instance lives in the same event loop: it shares the clock, and a
\* timer callback runs only when no microtask of either instance is queued.
\* Its methods are the same functions, applied to its own record.
InitTwo ==
  /\ mode = "none"
  /\ edge = "trailing"
  /\ InitCommon
  /\ \E e \in {"leading", "trailing", "both"} : other = NewInstance("throttle", e)

\* An operation on the second instance with the series fields declared static:
\* clearing them clears them for every instance.
InstallStaticSeries(q) ==
  /\ other' = q
  /\ events' = <<>>
  /\ invoked' = <<>>
  /\ currentSeriesPromise' = 0
  /\ currentSeriesPromiseResolve' = 0
  /\ currentSeriesPromiseReject' = 0
  /\ UNCHANGED <<mode, edge, leadingTaskController, leadingTaskArgs, series,
                 calls, microtasks, now, lastArgs, lastCallTime, lastInvokeTime, timerId,
                 lastResult, hooks, handles, used, nextSeries>>

\* An operation on the second instance assigns its fields and no others.
InstallOther(q) ==
  /\ other' = q
  /\ events' = <<>>
  /\ invoked' = <<>>
  /\ UNCHANGED <<mode, edge, leadingTaskController, leadingTaskArgs, currentSeriesPromise,
                 currentSeriesPromiseResolve, currentSeriesPromiseReject, series,
                 calls, microtasks, now, lastArgs, lastCallTime, lastInvokeTime, timerId,
                 lastResult, hooks, handles, used, nextSeries>>

runTwo ==
  /\ Len(calls) < MaxTwoCalls
  /\ runCall

runOther ==
  LET k == Len(other.calls) + 1
      q == [Untouched(other) EXCEPT !.calls = Append(@, NewCall(k, HasDeferral(other)))]
  IN /\ Len(other.calls) < MaxTwoCalls
     /\ InstallOther(IF HasDeferral(q) THEN runDeferrable(q, k) ELSE _run(q, k))
     /\ lastOp' = Op("runOther", k)

abortOther ==
  /\ InstallOther(abortImpl(Untouched(other)))
  /\ lastOp' = Op("abortOther", other.leadingTaskController)

TaskSettlesOther ==
  \E k \in 1..Len(other.calls) : \E out \in Outcomes(k) :
    /\ other.calls[k].started
    /\ other.calls[k].task.state = "pending"
    /\ InstallOther(Enqueue([Untouched(other) EXCEPT !.calls[k].task = out],
                            Job("resume", k, FALSE)))
    /\ lastOp' = Op("settleOther", k)

MicrotaskOther ==
  /\ other.microtasks # <<>>
  /\ LET job == Head(other.microtasks)
         k == job.k
         t == other.calls[k].task
         q == [Untouched(other) EXCEPT !.microtasks = Tail(@)]
     IN /\ InstallOther(CASE job.kind = "resume" ->
                              IF t.state = "fulfilled" THEN RunFulfilled(q, k, t.val)
                              ELSE RunRejected(q, k, t.val)
                          [] job.kind = "raceA" -> runAfterRace(q, k, job.won)
                          [] job.kind = "raceB" -> runAfterSecondRace(q, k, job.won))
        /\ lastOp' = Op("microtaskOther", k)

TimerOther ==
  /\ microtasks = <<>>
  /\ other.microtasks = <<>>
  /\ other.timerId # -1
  /\ other.timerId <= now
  /\ InstallOther(timerExpired(Untouched(other)))
  /\ lastOp' = Op("timerOther", 0)

UnsubscribeOther ==
  \E k \in 1..Len(other.calls) :
    /\ microtasks = <<>>
    /\ other.microtasks = <<>>
    /\ other.calls[k].unsub
    /\ InstallOther([Untouched(other) EXCEPT !.calls[k].unsub = FALSE,
                                             !.calls[k].hooked = FALSE])
    /\ lastOp' = Op("unsubOther", k)

\* Time passes, while no timer of either instance is due.
TickTwo ==
  /\ other.microtasks = <<>>
  /\ other.timerId = -1 \/ other.timerId > now
  /\ \A k \in 1..Len(other.calls) : ~other.calls[k].unsub
  /\ Tick

NextTwo ==
  \/ runTwo \/ abort \/ TaskSettles \/ Microtask
  \/ runOther \/ abortOther \/ TaskSettlesOther \/ MicrotaskOther
  \/ TimerOther \/ UnsubscribeOther \/ TickTwo

\* An instance without options and an instance with throttleMs.
SpecTwo == InitTwo /\ [][NextTwo]_vars

\* ------------------------------------------------------------------ run() inside abort()
\* abort() on a task whose listener runs after abort() has returned.
abortThenRun(q, k) ==
  LET q1 == abortImpl(q)
  IN _run([q1 EXCEPT !.calls = Append(@, NewCall(k, FALSE))], k)

\* abort() on a task that has an 'abort' listener on its signal which calls
\* run(): controller.abort() dispatches the event synchronously, so run() of
\* call k is entered with the signal triggered and the series still stored,
\* and abort() goes on when the listener returns.
abortWithListener(q, k) ==
  LET c == q.leadingTaskController
      q1 == ControllerAbort(q, c, "abort")
      q2 == _run([q1 EXCEPT !.calls = Append(@, NewCall(k, FALSE))], k)
  IN abortImpl(q2)

abortAndRun ==
  /\ leadingTaskController # 0
  /\ ~SignalAborted(Self, leadingTaskController)
  /\ Len(calls) < MaxCalls
  /\ Install(abortWithListener(Self, Len(calls) + 1))
  /\ lastOp' = Op("abortAndRun", Len(calls) + 1)

NextListener == run \/ abort \/ abortAndRun \/ TaskSettles \/ Microtask

\* No options, and tasks that call run() from the 'abort' listener of their signal.
SpecListener == Init /\ [][NextListener]_vars

\* ------------------------------------------------------------------ fairness
\* run(...args) early enough for the clock of the model to reach every timer
\* the call can set.
runInTime ==
  /\ Len(calls) < MaxDeferredCalls
  /\ now + Wait <= MaxTime
  /\ runCall

\* The steps the event loop takes by itself, as lastOp names them.
LoopOps == {"settle", "microtask", "raceA", "raceB", "timer", "unsub", "tick"}

\* One of TaskSettles, Microtask, Timer, Unsubscribe, Tick is enabled.
LoopEnabled ==
  \/ \E k \in 1..Len(calls) : calls[k].started /\ calls[k].task.state = "pending"
  \/ microtasks # <<>>
  \/ microtasks = <<>> /\ timerId # -1 /\ timerId <= now
  \/ microtasks = <<>> /\ \E k \in 1..Len(calls) : calls[k].unsub
  \/ /\ microtasks = <<>>
     /\ now < MaxTime
     /\ timerId = -1 \/ timerId > now
     /\ \A k \in 1..Len(calls) : ~calls[k].unsub

\* The event loop does not stop while it has something to do: a started task
\* body settles, a queued reaction runs, time passes and a due timer fires.
\* This is weak fairness of the five steps together, written with their
\* guards.
LoopFairness == []<>(~LoopEnabled) \/ []<><<lastOp'.op \in LoopOps>>_vars

InitLive == Init \/ InitDeferral

NextLive == runInTime \/ abort \/ TaskSettles \/ Microtask \/ Timer \/ Unsubscribe \/ Tick

\* Every configuration, with finitely many run() and abort() calls and a fair
\* event loop.
SpecLive == InitLive /\ [][NextLive]_vars /\ LoopFairness

NextNextSeries ==
  nextSeriesResult \/ run \/ abort \/ TaskSettles \/ Microtask \/ UnsubscribeNextSeries

\* No options, and clients that read nextSeriesResult.
SpecNextSeries == Init /\ [][NextNextSeries]_vars

NextIndex == runIndex \/ abortIndex \/ TaskSettles \/ MicrotaskIndex

\* new LastWinsAndCancelsPrevious() of src/index.ts.
SpecIndex == Init /\ [][NextIndex]_vars

NextWindows == runInWindow \/ TaskSettles \/ Microtask \/ Timer \/ Unsubscribe \/ Tick

SpecWindows == InitDeferral /\ [][NextWindows]_vars

\* ------------------------------------------------------------------ claims
Ids == 1..Len(calls)
Aborted(k) == calls[k].abortedBy # "none"
Settled(p) == p.state # "pending"
SeriesIds == 1..Len(series)
\* Series s is settled by this step.
Settles(s) == ~Settled(series[s]) /\ Settled(series'[s])
\* This step is a run() that displaces the occupant of the active slot.
Displaces ==
  /\ lastOp'.op = "run"
  /\ leadingTaskController # 0
  /\ calls'[lastOp'.k].started

\* C1: with no deferral, whenever a series future is settled by anything but
\* abort(), it is settled by the resumption of the task of the last run() call
\* and takes exactly that task's outcome, whatever the earlier tasks did.
C1_LastCallWins ==
  [][\A s \in SeriesIds :
       (Settles(s) /\ lastOp'.op # "abort") =>
         /\ lastOp' = Op("microtask", Len(calls))
         /\ series'[s] = calls[Len(calls)].task]_vars

\* Three calls in one series; the first two settled with other outcomes (one
\* before, one after the last) and the series took the third's outcome.
C1_Witness ==
  /\ Len(calls) = 3 /\ Len(series) = 1
  /\ \A k \in Ids : calls[k].abortedBy # "abort" /\ Settled(calls[k].fut)
  /\ series[1] = calls[3].task
  /\ calls[1].task # calls[3].task /\ calls[2].task # calls[3].task
  /\ lastOp = Op("microtask", 2)

\* C2: the resumption of a task whose signal was triggered leaves every series
\* future, and the coordinator's reference to the open one, as they were.
C2_AbortedTaskNeverSettlesSeries ==
  [][(lastOp'.op = "microtask" /\ Aborted(lastOp'.k)) =>
       UNCHANGED <<series, currentSeriesPromise, currentSeriesPromiseResolve,
                   currentSeriesPromiseReject>>]_vars

\* A task cancelled by abort() rejects after its series was closed and while a
\* later series is open.
C2_Witness ==
  /\ lastOp.op = "microtask"
  /\ calls[lastOp.k].abortedBy = "abort"
  /\ calls[lastOp.k].task.state = "rejected"
  /\ Len(series) = 2 /\ Settled(series[1]) /\ currentSeriesPromise = 2

\* C3: at most one started task is unsettled with an untriggered signal, and
\* it is the occupant of the active slot; a run() that starts a task has
\* triggered the previous occupant's signal by the time the task is started.
C3_SingleOccupant ==
  /\ [](LET live == {k \in Ids : calls[k].started /\ ~Settled(calls[k].task)
                                  /\ ~Aborted(k)}
        IN Cardinality(live) <= 1 /\ live \subseteq {leadingTaskController})
  /\ [][Displaces => calls'[leadingTaskController].abortedBy # "none"]_vars

\* A displaced task is still running, cancelled, beside the new occupant.
C3_Witness ==
  /\ lastOp.op = "run" /\ leadingTaskController = lastOp.k
  /\ \E c \in Ids : /\ calls[c].abortedBy = "run"
                    /\ ~Settled(calls[c].task)
                    /\ ~Settled(calls[lastOp.k].task)

\* C4: a settled series future never changes again, and when it is settled by
\* anything but abort() it is the open series and takes the outcome of the
\* task in the active slot, whose signal is untriggered.
C4_SeriesSettlesOnceWithOccupant ==
  [][\A s \in SeriesIds :
       /\ Settled(series[s]) => series'[s] = series[s]
       /\ (Settles(s) /\ lastOp'.op # "abort") =>
            /\ leadingTaskController # 0
            /\ ~Aborted(leadingTaskController)
            /\ s = currentSeriesPromise
            /\ series'[s] = calls[leadingTaskController].task]_vars

\* A series was rejected with the error of its occupant while an earlier,
\* displaced task had already resolved.
C4_Witness ==
  /\ lastOp.op = "microtask"
  /\ Len(series) = 1 /\ series[1] = calls[lastOp.k].task
  /\ series[1].state = "rejected"
  /\ \E c \in Ids : calls[c].abortedBy = "run" /\ calls[c].task.state = "fulfilled"
                    /\ Settled(calls[c].fut)

\* C5 as stated: a displaced call's run() future is rejected with
\* TaskAbortedError at displacement time, whether or not its body settles.
C5_RejectedAtDisplacement ==
  \A k \in Ids : calls[k].abortedBy = "run" => calls[k].fut = Reject(Pending, TaskAbortedError)

\* C5 amended: with no deferral, a displaced call's run() future stays pending
\* until its task body settles and this is acted on; it is then rejected, with
\* TaskAbortedError if the body resolved and with the body's error if it
\* rejected.  A call whose task resolves with its signal untriggered has its
\* future resolved with that result, and the series future with the same.
C5_RejectedWhenBodySettles ==
  /\ [](\A k \in Ids : calls[k].abortedBy = "run" =>
          /\ ~Settled(calls[k].task) => ~Settled(calls[k].fut)
          /\ Settled(calls[k].fut) =>
               calls[k].fut = Reject(Pending, IF calls[k].task.state = "fulfilled"
                                              THEN TaskAbortedError
                                              ELSE calls[k].task.val))
  /\ [][(/\ lastOp'.op = "microtask"
         /\ ~Aborted(lastOp'.k)
         /\ calls[lastOp'.k].task.state = "fulfilled") =>
           /\ calls'[lastOp'.k].fut = calls[lastOp'.k].task
           /\ currentSeriesPromise # 0
           /\ series'[currentSeriesPromise] = calls[lastOp'.k].task]_vars

\* The displaced body never settled and its future is still pending, while
\* the displacing call and the series both resolved with the second result.
C5_Witness ==
  /\ Len(calls) = 2 /\ Len(series) = 1
  /\ calls[1].abortedBy = "run" /\ ~Settled(calls[1].task) /\ ~Settled(calls[1].fut)
  /\ calls[2].fut.state = "fulfilled"
  /\ series[1] = calls[2].fut

\* C6: between operations the series accessor is empty exactly when no task
\* occupies the active slot, and a non-empty accessor is a pending future.
C6_AccessorEmptyIffIdle ==
  /\ (currentSeriesPromise = 0) <=> (leadingTaskController = 0)
  /\ currentSeriesPromise # 0 =>
       /\ currentSeriesPromise \in SeriesIds
       /\ ~Settled(series[currentSeriesPromise])
       /\ calls[leadingTaskController].started

\* The accessor is empty again after the occupant's outcome was accepted.
C6_Witness ==
  /\ lastOp.op = "microtask"
  /\ ~Aborted(lastOp.k)
  /\ currentSeriesPromise = 0 /\ leadingTaskController = 0
  /\ Len(series) = 2

\* C7: a displacing run() leaves the accessor and every series future as they
\* were, and the open series is settled only by abort() or by the resumption
\* of the newest started task, its signal untriggered.
C7_DisplacementKeepsSeries ==
  [][/\ Displaces => UNCHANGED <<currentSeriesPromise, series>>
     /\ \A s \in SeriesIds :
          (Settles(s) /\ lastOp'.op # "abort") =>
            /\ lastOp'.op = "microtask"
            /\ lastOp'.k = leadingTaskController
            /\ \A j \in Ids : calls[j].started => j <= lastOp'.k
            /\ ~Aborted(lastOp'.k)]_vars

\* The displaced task has settled and was resumed; the series opened by it is
\* still the accessor's and still pending.
C7_Witness ==
  /\ Len(series) = 1 /\ currentSeriesPromise = 1 /\ ~Settled(series[1])
  /\ lastOp.op = "microtask"
  /\ calls[lastOp.k].abortedBy = "run"
  /\ leadingTaskController > lastOp.k

\* C8 as stated: abort() called while no task is active and nothing is
\* deferred (no controller, no pending call of the debounced function, no
\* timer) fires no hook and changes nothing of the coordinator, its series
\* or the futures of its calls.
C8_IdleAbortIsNoOp ==
  [][(lastOp'.op = "abort" /\ leadingTaskController = 0 /\ lastArgs = 0 /\ timerId = -1) =>
       /\ events' = <<>>
       /\ UNCHANGED <<leadingTaskController, leadingTaskArgs, currentSeriesPromise,
                      currentSeriesPromiseResolve, currentSeriesPromiseReject,
                      series, calls>>]_vars

\* C9 as stated: when _run resumes for a call whose signal abort() has
\* aborted and whose task body resolved, the future run() returned for that
\* call is rejected with TaskAbortedError.
C9_AbortedFutureRejects ==
  [][\A k \in Ids :
       (lastOp' = Op("microtask", k) /\ calls[k].abortedBy = "abort"
          /\ calls[k].task.state = "fulfilled") =>
         calls'[k].fut = Reject(Pending, TaskAbortedError)]_vars

\* C10 as stated: abort() on an active task fires exactly one task-aborted
\* event, which carries the cancelled task's signal and arguments (and so is
\* passed on to the onSeriesEnded subscribers, with aborted = true).
C10_AbortFiresOneTaskAborted ==
  [][(lastOp'.op = "abort" /\ leadingTaskController # 0) =>
       events' = <<Event("taskAborted", leadingTaskArgs, leadingTaskController,
                         Undefined)>>]_vars

\* C11 as stated: abort() called while a series is open rejects that series
\* future with TaskAbortedError, and the accessor is empty afterwards.
C11_AbortRejectsSeriesWithTaskAborted ==
  [][(lastOp'.op = "abort" /\ currentSeriesPromise # 0) =>
       /\ series'[currentSeriesPromise] = Reject(Pending, TaskAbortedError)
       /\ currentSeriesPromise' = 0]_vars

\* The coordinator's fields.
Coordinator ==
  <<leadingTaskController, leadingTaskArgs, currentSeriesPromise,
    currentSeriesPromiseResolve, currentSeriesPromiseReject>>

\* Call k was started after abort() had cancelled an earlier task.
StartedAfterAbort(k) ==
  calls[k].started /\ \E j \in 1..(k - 1) : calls[j].abortedBy = "abort"

\* C12 as stated: abort() leaves the coordinator idle; a task started
\* afterwards finds no series and opens a fresh one; when it settles with its
\* signal untriggered its call's future and its series take its outcome; and
\* the task abort() cancelled, when it settles, changes neither the
\* coordinator, nor a series, nor the future of another call.
C12_AbortLeavesFreshCoordinator ==
  /\ [][lastOp'.op = "abort" =>
          leadingTaskController' = 0 /\ currentSeriesPromise' = 0]_vars
  /\ [][\A k \in Ids :
          (leadingTaskController = 0 /\ ~calls[k].started /\ calls'[k].started) =>
            /\ series' = Append(series, Pending)
            /\ currentSeriesPromise' = Len(series')
            /\ leadingTaskController' = k]_vars
  /\ [][\A k \in Ids :
          (lastOp' = Op("microtask", k) /\ StartedAfterAbort(k) /\ ~Aborted(k)) =>
            /\ calls'[k].fut = calls[k].task
            /\ currentSeriesPromise # 0
            /\ series'[currentSeriesPromise] = calls[k].task]_vars
  /\ [][\A k \in Ids :
          (lastOp' = Op("microtask", k) /\ calls[k].abortedBy = "abort") =>
            /\ UNCHANGED <<Coordinator, series>>
            /\ \A j \in Ids \ {k} : calls'[j].fut = calls[j].fut]_vars

\* Call k is held by the debounced function: its arguments are the ones the
\* trailing edge will invoke _run with.
Held(k) == lastArgs = k /\ ~calls[k].invoked /\ edge \in {"trailing", "both"}

AbortedUnstarted(k) ==
  ~calls[k].invoked /\ calls[k].fut = Reject(Pending, TaskAbortedError)

\* C13: abort() called while call k is held and not started rejects the
\* future of call k with TaskAbortedError and empties the debounced function;
\* and a call aborted before it started is never started afterwards.
C13_AbortDiscardsDeferred ==
  /\ [][\A k \in Ids :
          (lastOp'.op = "abort" /\ Held(k)) =>
            /\ calls'[k].fut = Reject(Pending, TaskAbortedError)
            /\ lastArgs' = 0 /\ timerId' = -1]_vars
  /\ [][\A k \in Ids :
          AbortedUnstarted(k) => ~calls'[k].invoked /\ ~calls'[k].started]_vars

\* A held call was aborted, and the clock has since passed the end of the
\* window in which its timer would have fired.
C13_Witness ==
  \E k \in Ids :
    /\ AbortedUnstarted(k)
    /\ calls[k].stage = "awaitB"
    /\ now > 1 + Wait

DebounceTrailing == mode = "debounce" /\ edge = "trailing"

\* The calls that this step enters _run for.
Invokes(k) == k \in 1..Len(calls') /\ calls'[k].invoked /\ (k \in Ids => ~calls[k].invoked)

\* C14 as stated: under debounce with the trailing edge only, run() starts no task; a
\* task is started only by the timer, once the window after the last call has
\* elapsed, and it is the task of the last call, with its arguments; and once
\* the reactions have run, every earlier call that was passed over has its
\* future rejected with TaskIgnoredError (or with TaskAbortedError, if an
\* abort() rejected it first).
C14_DebounceTrailingRunsLast ==
  /\ [][DebounceTrailing =>
          \A k \in 1..Len(calls') :
            Invokes(k) =>
              /\ lastOp'.op = "timer"
              /\ now >= lastCallTime + Wait
              /\ k = Len(calls)
              /\ calls'[k].started
              /\ leadingTaskArgs' = calls[k].args
              /\ \A j \in 1..Len(calls') \ {k} : ~Invokes(j)]_vars
  /\ [](DebounceTrailing /\ microtasks = <<>> =>
          \A k \in Ids : \A j \in 1..(k - 1) :
            (calls[k].started /\ ~calls[j].invoked) =>
              calls[j].fut \in {Reject(Pending, TaskIgnoredError),
                                Reject(Pending, TaskAbortedError)})

ThrottleLeading == mode = "throttle" /\ edge = "leading"

\* A throttle window is open: a call was made since the last abort() and less
\* than the wait has passed since _run was last invoked.
InWindow == lastCallTime # -1 /\ now - lastInvokeTime < Wait

\* C15 as stated: under throttle with the leading edge only, _run is entered
\* only by run(), for the call being made, and exactly when no window is
\* open, and the task is then started; a call made inside a window is
\* never started, and once the reactions have run its future is rejected
\* with TaskIgnoredError (or with TaskAbortedError, if an abort() rejected it
\* first).
C15_ThrottleLeadingIgnoresWindow ==
  /\ [][ThrottleLeading =>
          /\ \A k \in 1..Len(calls') :
               Invokes(k) => lastOp' = Op("run", k) /\ k = Len(calls) + 1
                               /\ calls'[k].started
          /\ lastOp'.op = "run" => (calls'[lastOp'.k].invoked <=> ~InWindow)]_vars
  /\ [](ThrottleLeading /\ microtasks = <<>> =>
          \A k \in Ids :
            ~calls[k].invoked =>
              calls[k].fut \in {Reject(Pending, TaskIgnoredError),
                                Reject(Pending, TaskAbortedError)})

EdgeBoth == edge = "both"

\* A window is open: under debounce, the timer set by an earlier call has not
\* fired; under throttle, less than the wait has passed since the last call
\* and since _run was last invoked.
WindowOpen ==
  /\ lastCallTime # -1
  /\ IF mode = "debounce" THEN timerId # -1
     ELSE now - lastCallTime < Wait /\ now - lastInvokeTime < Wait

\* C16: with edge 'both' and no abort(), _run is entered for a call either by
\* its own run(), exactly when no window is open (the leading edge), or by the
\* timer, and then for the last call made (the trailing edge); each time the
\* task is started with that call's arguments.  A call that was passed over by
\* a later call is never started, and a timer that fires when the last call
\* has been started already starts nothing (a burst of one starts one task).
C16_BothEdgesStartTwo ==
  [][EdgeBoth =>
       /\ \A k \in 1..Len(calls') :
            Invokes(k) =>
              /\ lastOp' = Op("run", k) \/ (lastOp'.op = "timer" /\ k = Len(calls))
              /\ calls'[k].started
              /\ leadingTaskArgs' = calls'[k].args
              /\ leadingTaskController' = k
       /\ lastOp'.op = "run" => (calls'[lastOp'.k].invoked <=> ~WindowOpen)
       /\ \A j \in 1..(Len(calls) - 1) : ~calls[j].invoked => ~calls'[j].invoked
       /\ (lastOp'.op = "timer" /\ calls[Len(calls)].invoked) =>
            UNCHANGED <<Coordinator, series, calls>> /\ events' = <<>>]_vars

\* A burst of three calls in one window: the first and the third were started,
\* the second was not.
C16_Witness ==
  /\ EdgeBoth
  /\ Len(calls) = 3
  /\ calls[1].started /\ ~calls[2].invoked /\ calls[3].started
  /\ lastOp.op = "timer"
  /\ lastCallTime < 1 + Wait

\* C17: under a deferral mode, when a call the policy executed has its task
\* settle while its signal is untriggered, the step that delivers the
\* settlement leaves the call's run() future settled with exactly the task's
\* outcome (its result or its thrown error).
Executed(k) == calls[k].invoked /\ calls[k].started /\ ~Aborted(k)

C17_ExecutedCallGetsOwnOutcome ==
  [][\A k \in Ids :
       (mode # "none" /\ lastOp' = Op("microtask", k) /\ Executed(k)) =>
         calls'[k].fut = calls[k].task]_vars

\* C18: the run() future of a call reflects only its own call: a future that
\* is settled with a task's value or a task's error carries the outcome of its
\* own task, and while the call's own task is running with an untriggered
\* signal its future is not settled by what another call's task did.
C18_FutureReflectsOwnCall ==
  \A k \in Ids :
    /\ calls[k].fut.val.t \in {"value", "error"} => calls[k].fut = calls[k].task
    /\ (Executed(k) /\ ~Settled(calls[k].task)) => ~Settled(calls[k].fut)

\* C19: when a task that was displaced by a newer run() rejects with its own
\* error E, the step that delivers the rejection rejects that call's run()
\* future with E and leaves every series future and every other call's future
\* as it was.
DisplacedRejects(k) ==
  calls[k].abortedBy = "run" /\ calls[k].task = Reject(Pending, TaskError(k))

C19_DisplacedFailureStaysOwn ==
  [][\A k \in Ids :
       (lastOp' = Op("microtask", k) /\ DisplacedRejects(k)) =>
         /\ calls'[k].fut = Reject(Pending, TaskError(k))
         /\ series' = series
         /\ \A j \in Ids \ {k} : calls'[j].fut = calls[j].fut]_vars

\* C20: when a started task whose signal was triggered settles, resolving or
\* rejecting, the step that delivers the settlement fires exactly one
\* abortedTaskFinished event and no seriesSucceeded or seriesFailed event.
Fired(kind) == {i \in 1..Len(events) : events[i].kind = kind}

C20_AbortedSettlementFiresOneEvent ==
  [][\A k \in Ids :
       (lastOp' = Op("microtask", k) /\ calls[k].started /\ Aborted(k)) =>
         /\ Cardinality(Fired("abortedTaskFinished")') = 1
         /\ Fired("seriesSucceeded")' = {}
         /\ Fired("seriesFailed")' = {}]_vars

\* C21: series-started and series-end notifications alternate.  A step opens
\* a series only when none is open and fires one seriesStarted for it; a step
\* that closes the open series fires exactly one series-end notification
\* (seriesSucceeded, seriesFailed or taskAborted), and does so when delivering
\* a task's settlement or in abort(); no other step fires seriesSucceeded or
\* seriesFailed.
SeriesCloses == currentSeriesPromise # 0 /\ currentSeriesPromise' # currentSeriesPromise
SeriesEndEvents == Fired("seriesSucceeded") \cup Fired("seriesFailed") \cup Fired("taskAborted")

C21_SeriesNotificationsAlternate ==
  [][/\ Fired("seriesStarted")' # {} =>
          currentSeriesPromise = 0 /\ Cardinality(Fired("seriesStarted")') = 1
     /\ SeriesCloses =>
          /\ Cardinality(SeriesEndEvents') = 1
          /\ lastOp'.op \in {"microtask", "abort"}
     /\ (Fired("seriesSucceeded")' \cup Fired("seriesFailed")' # {}) => SeriesCloses]_vars

\* The calls an onSeriesEnded subscriber receives from a list of fired events:
\* every seriesSucceeded and seriesFailed event, and every taskAborted event
\* that carries both a signal and arguments.
ReachesSeriesEnded(e) ==
  \/ e.kind \in {"seriesSucceeded", "seriesFailed"}
  \/ e.kind = "taskAborted" /\ e.signal # 0 /\ e.args # 0
onSeriesEnded(evs) == SelectSeq(evs, ReachesSeriesEnded)

\* C22: a callback registered with onSeriesEnded is invoked only by a step
\* that ends the series; the displacement of a task by a newer run(), which
\* leaves the series open, does not invoke it.
C22_SeriesEndedOnlyAtSeriesEnd ==
  [][onSeriesEnded(events') # <<>> => SeriesCloses]_vars

\* C23: a step fires exactly one taskAborted event for each occupant whose
\* signal it triggers (displaced by a newer run() or cancelled by abort()),
\* and no taskAborted event when it triggers no signal.
NewlyAborted == {k \in Ids : ~Aborted(k) /\ calls'[k].abortedBy # "none"}

C23_OneTaskAbortedPerCancelledOccupant ==
  [][Cardinality(Fired("taskAborted")') = Cardinality(NewlyAborted)]_vars

Starts == {k \in 1..Len(calls') : calls'[k].started /\ (k > Len(calls) \/ ~calls[k].started)}

HeldIdle == leadingTaskController = 0 /\ \E k \in Ids : Held(k)

C26_SeriesOpenOnlyWhileTaskRuns ==
  /\ [](HeldIdle =>
          /\ currentSeriesPromise = 0
          /\ Fired("taskStarted") \cup Fired("seriesStarted") = {})
  /\ [][/\ (Fired("taskStarted")' \cup Fired("seriesStarted")' # {}) => Starts # {}
        /\ (currentSeriesPromise = 0 /\ currentSeriesPromise' # 0) => Starts # {}
        /\ \A k \in Ids :
             (lastOp' = Op("microtask", k) /\ calls[k].started /\ ~Aborted(k)) =>
               currentSeriesPromise' = 0]_vars

\* A run() under debounce left its call with the policy: nothing started.
C26_Witness ==
  /\ lastOp.op = "run"
  /\ Held(lastOp.k)
  /\ leadingTaskController = 0
  /\ currentSeriesPromise = 0
  /\ events = <<>>

\* The last operation invoked a throwing callback subscribed to kind.
Threw(kind) ==
  \E i \in 1..Len(invoked) : invoked[i].kind = kind /\ invoked[i].cb = "throws"

\* The callbacks subscribed to kind neither subscribe nor unsubscribe.
Passive(kind) ==
  \A i \in 1..Len(hooks[kind]) : hooks[kind][i].cb \in {"plain", "throws"}

\* C27: when a hook callback throws, the other callbacks subscribed to the
\* same event are still invoked, the operation completes its state update (a
\* run() has started its task and opened or kept a series, the continuation of
\* an accepted task leaves the queue idle), and the run() future of a task
\* that settled with an untriggered signal carries the task's own outcome.
C27_ThrowingHandlerIsContained ==
  [][\A kind \in EventKinds :
       (Threw(kind)' /\ Passive(kind)) =>
         /\ \A i \in 1..Len(hooks[kind]) :
              \E j \in 1..Len(invoked') : invoked'[j].sub = hooks[kind][i].sub
         /\ lastOp'.op = "run" =>
              /\ calls'[lastOp'.k].started
              /\ leadingTaskController' = lastOp'.k
              /\ currentSeriesPromise' # 0
         /\ (lastOp'.op = "microtask" /\ ~Aborted(lastOp'.k)) =>
              /\ leadingTaskController' = 0
              /\ currentSeriesPromise' = 0
              /\ calls'[lastOp'.k].fut = calls[lastOp'.k].task]_vars

\* The entries of the array of kind that hold callback cb, and the
\* subscriptions of cb to kind whose unsubscribe function was never called.
Subscribed(kind, cb) == {i \in 1..Len(hooks[kind]) : hooks[kind][i].cb = cb}
Live(kind, cb) ==
  {h \in 1..Len(handles) : handles[h] = [kind |-> kind, cb |-> cb] /\ h \notin used}

\* C28: an unsubscribe function removes the subscription it was returned for
\* and nothing else, and calling it again changes nothing: at every moment a
\* callback is held by a hook array once for each of its subscriptions whose
\* unsubscribe function has not been called, also when the same callback was
\* subscribed twice.
C28_UnsubscribeRemovesOwnSubscription ==
  \A kind \in EventKinds : \A cb \in Callbacks :
    Cardinality(Subscribed(kind, cb)) = Cardinality(Live(kind, cb))

\* The subscriptions whose callbacks the last operation invoked for kind, in
\* order, and the subscriptions held by the array of kind, in order.
InvokedFor(kind) ==
  LET OfKind(e) == e.kind = kind
      s == SelectSeq(invoked, OfKind)
  IN [i \in 1..Len(s) |-> s[i].sub]
SubscribedTo(kind) == [i \in 1..Len(hooks[kind]) |-> hooks[kind][i].sub]

\* No callback subscribed to kind throws.
Quiet(kind) == \A i \in 1..Len(hooks[kind]) : hooks[kind][i].cb # "throws"

\* C29: the dispatch of an event invokes the callbacks that were subscribed
\* when it began, each exactly once and in order, whatever the callbacks
\* subscribe or unsubscribe while it runs: none is skipped and none added
\* during the dispatch is invoked by it.
C29_DispatchUsesSnapshot ==
  [][\A kind \in EventKinds :
       (Fired(kind)' # {} /\ Quiet(kind)) => InvokedFor(kind)' = SubscribedTo(kind)]_vars

\* Call k is the task the queue is running: its body was started with a signal
\* that is not aborted, and the callbacks of _run have not handled its outcome.
Occupies(k) == calls[k].started /\ ~Aborted(k) /\ ~Settled(calls[k].p)

\* The events of src/index.ts that carry isSeriesEnd.
Flagged(e) == e.kind \in {"aborted", "error", "complete"}

\* C30: an event with isSeriesEnd = true leaves the queue idle once the
\* operation that fired it is over (result is undefined and no task occupies
\* the queue), and an event with isSeriesEnd = false is fired by an operation
\* that leaves a task in the queue.
C30_IsSeriesEndTellsIdle ==
  [][\A i \in 1..Len(events') :
       Flagged(events'[i]) =>
         IF events'[i].isSeriesEnd
         THEN currentSeriesPromise' = 0 /\ \A k \in Ids' : ~Occupies(k)'
         ELSE \E k \in Ids' : Occupies(k)']_vars

\* C31: a pending promise read from nextSeriesResult settles in the step in
\* which a series settles, and exactly as that series does (resolved with its
\* result, rejected with its error); a step that settles no series, such as a
\* displacement, leaves it pending.
C31_NextSeriesResultFollowsSeriesEnd ==
  [][\A n \in 1..Len(nextSeries) :
       ~Settled(nextSeries[n].p) =>
         IF \E s \in SeriesIds : Settles(s)
         THEN \E s \in SeriesIds : Settles(s) /\ nextSeries'[n].p = series'[s]
         ELSE ~Settled(nextSeries'[n].p)]_vars

\* The operations on the second instance.
OtherOps ==
  {"runOther", "abortOther", "settleOther", "microtaskOther", "timerOther", "unsubOther"}

\* An instance's record apart from the clock, which the instances share.
Fields(q) == [q EXCEPT !.now = 0]

C33_EveryCallStartsItsTaskAtOnce ==
  [][/\ lastOp'.op = "run" =>
          LET k == lastOp'.k
              c == leadingTaskController
          IN /\ calls'[k].started
             /\ calls'[k].abortedBy = "none"
             /\ leadingTaskController' = k
             /\ ~Settled(calls'[k].fut)
             /\ c # 0 => calls'[c].abortedBy # "none"
     /\ \A k \in Ids' :
          (calls'[k].started /\ (k \notin Ids \/ ~calls[k].started)) => lastOp' = Op("run", k)]_vars

\* The third run() has just displaced the second, which had displaced the first.
C33_Witness ==
  /\ lastOp = Op("run", 3)
  /\ calls[3].started
  /\ calls[2].abortedBy = "run" /\ ~Settled(calls[2].task)
  /\ calls[1].abortedBy = "run"

\* The step fires a task-ignored event for call k.
Ignores(k) ==
  \E i \in 1..Len(events') : events'[i].kind = "taskIgnored" /\ events'[i].args = k

\* Call k was reported ignored: run() is through with it and _run was never
\* entered for it.
ReportedIgnored(k) == calls[k].stage = "done" /\ ~calls[k].invoked

\* C34: under a deferral policy a call gets one report.  A call whose promise
\* abort() has rejected with TaskAbortedError gets no task-ignored event, a
\* call whose task was started gets no task-ignored event, and the task body
\* is not invoked for a call that was reported ignored.
C34_OneOutcomePerCall ==
  [][\A k \in Ids :
       /\ Ignores(k) => calls[k].fut # Reject(Pending, TaskAbortedError)
       /\ Ignores(k) => ~calls'[k].started
       /\ ReportedIgnored(k) => ~calls'[k].started]_vars

\* The step fires a task-deferred event for call k.
Defers(k) ==
  \E i \in 1..Len(events') : events'[i].kind = "taskDeferred" /\ events'[i].args = k

\* run() of call k did not start its task: the debounced function returned
\* what it had from an earlier invocation, or nothing.
HeldBack(k) == calls[k].dres # k

\* C35: a task-deferred event is fired for call k by the continuation of its
\* run() after the first await and by no other step, so at most once; that
\* continuation fires it if the call was held back, and does not fire it if
\* the task of the call was started within run().
C35_DeferredOncePerHeldCall ==
  [][\A k \in Ids :
       /\ Defers(k) =>
            /\ lastOp' = Op("raceA", k)
            /\ calls[k].stage = "queuedA"
            /\ calls'[k].stage \notin {"calling", "awaitA", "queuedA"}
       /\ lastOp' = Op("raceA", k) => (Defers(k) <=> HeldBack(k))]_vars

\* C36: with a fair event loop and finitely many calls, from some point on
\* every promise returned by run() is settled, and no controller and no
\* series promise is stored.
C36_EverythingSettlesAndIdles ==
  /\ <>[](\A k \in Ids : Settled(calls[k].fut))
  /\ <>[](leadingTaskController = 0 /\ currentSeriesPromise = 0)

\* Two calls under a deferral policy, the second started by the timer, have
\* both run to their end: the promises are settled and the queue is idle.
C36_Witness ==
  /\ mode # "none"
  /\ Len(calls) = 2
  /\ calls[2].started /\ calls[2].dres # 2
  /\ \A k \in Ids : Settled(calls[k].fut) /\ (calls[k].started => Settled(calls[k].task))
  /\ leadingTaskController = 0 /\ currentSeriesPromise = 0
  /\ ~LoopEnabled

\* C37: when a run() displaces the task of call c, the task-aborted event it
\* fires carries the signal of c, which is triggered, and the arguments call
\* c was started with.
C37_TaskAbortedNamesDisplacedTask ==
  [][Displaces =>
       LET c == leadingTaskController
       IN /\ Fired("taskAborted")' # {}
          /\ \A i \in 1..Len(events') :
               events'[i].kind = "taskAborted" =>
                 /\ events'[i].signal = c
                 /\ calls'[c].abortedBy # "none"
                 /\ events'[i].args = calls[c].args]_vars

\* C38: the controller, its arguments and the series promise are stored
\* together and cleared together, so neither guard of _run and abort() that
\* throws an internal Error can be met; a continuation of run() that finds its
\* task started also finds the promise the debounced function returned; and
\* no promise of _run or of run() is rejected with an internal Error.
C38_NoInternalError ==
  /\ (leadingTaskController = 0) = (leadingTaskArgs = 0)
  /\ (leadingTaskController = 0) = (currentSeriesPromise = 0)
  /\ \A i \in 1..Len(microtasks) :
       (microtasks[i].kind = "raceA" /\ microtasks[i].won) => calls[microtasks[i].k].dres # 0
  /\ \A k \in Ids : calls[k].stage = "awaitA" => calls[k].dres # 0
  /\ \A k \in Ids : calls[k].p.val # InternalError /\ calls[k].fut.val # InternalError

\* After abort() cancelled the first task, a second run() has started its task
\* in a new series.
C38_Witness ==
  /\ Len(calls) >= 2
  /\ calls[1].abortedBy = "abort"
  /\ calls[2].started
  /\ leadingTaskController = 2 /\ leadingTaskArgs = 2
  /\ currentSeriesPromise # 0

\* C39: a run() entered from an 'abort' listener while abort() is in progress
\* finds the signal of the current controller triggered: it fires a
\* task-aborted event with that signal, its promise is rejected with
\* TaskAbortedError, its task body is not invoked, and it leaves the
\* controller, its arguments and the series promise to abort(), which ends as
\* it would have without the call.
C39_RunDuringAbortIsRejected ==
  [][lastOp'.op = "abortAndRun" =>
       LET k == lastOp'.k
           c == leadingTaskController
       IN /\ \E i \in 1..Len(events') :
               /\ events'[i].kind = "taskAborted"
               /\ events'[i].signal = c
          /\ Fired("taskStarted")' = {} /\ Fired("seriesStarted")' = {}
          /\ calls'[k].fut = Reject(Pending, TaskAbortedError)
          /\ ~calls'[k].started
          /\ [Self' EXCEPT !.calls = SubSeq(@, 1, k - 1)] = Untouched(abortImpl(Self))]_vars

\* The listener of the second task has called run() during abort().
C39_Witness ==
  /\ lastOp = Op("abortAndRun", 3)
  /\ calls[1].abortedBy = "run"
  /\ calls[2].abortedBy = "abort"
  /\ calls[3].fut.state = "rejected"
  /\ series[1] = Reject(Pending, Undefined)

====
